---- MODULE Spec2Model ----
(***************************************************************************)
(* ExcelUnprotector.py: removal of sheet protection from spreadsheet       *)
(* packages.  The model covers the two-level fan-out (files, then sheets   *)
(* of a file), the temporary workspace of every per-file pipeline, the zip *)
(* extract / repack round trip and the derivation of the output path.      *)
(*                                                                         *)
(* Paths are sequences of one-character strings, so that str.replace and   *)
(* str.endswith are computed as Python computes them.                      *)
(***************************************************************************)
EXTENDS Integers, Sequences, FiniteSets, TLC

(***************************************************************************)
(* Bounds of the model.                                                    *)
(***************************************************************************)
\* the largest number of sheetProtection elements in one sheet part
MaxProt == 2
\* the largest max_workers a caller passes explicitly
MaxBudget == 1
\* the number of environment faults (I/O errors) injected in one run
MaxFaults == 1
\* os.cpu_count() of the machine
CpuCount == 1

(***************************************************************************)
(* Strings as character sequences.                                         *)
(***************************************************************************)
Sep == <<"/">>
DotXls == <<".", "x", "l", "s">>
DotXlsx == <<".", "x", "l", "s", "x">>
DotXlsm == <<".", "x", "l", "s", "m">>
Unprotected == <<"_", "u", "n", "p", "r", "o", "t", "e", "c", "t", "e", "d">>

\* str.startswith
StartsWith(s, pre) == Len(s) >= Len(pre) /\ SubSeq(s, 1, Len(pre)) = pre

\* str.endswith with one suffix
EndsWith(s, suf) ==
    Len(s) >= Len(suf) /\ SubSeq(s, Len(s) - Len(suf) + 1, Len(s)) = suf

\* str.replace(old, new): every non-overlapping occurrence, left to right
RECURSIVE Replace(_, _, _)
Replace(s, old, new) ==
    IF Len(s) < Len(old) THEN s
    ELSE IF StartsWith(s, old)
         THEN new \o Replace(SubSeq(s, Len(old) + 1, Len(s)), old, new)
         ELSE <<Head(s)>> \o Replace(Tail(s), old, new)


\* lines 145, 152: name.endswith((".xls", ".xlsx", ".xlsm"))
IsExcelName(name) ==
    EndsWith(name, DotXls) \/ EndsWith(name, DotXlsx) \/ EndsWith(name, DotXlsm)

\* the index of the last "/" of a path, 0 when it has none
LastSep(p) ==
    LET seps == {i \in 1..Len(p) : p[i] = "/"}
    IN  IF seps = {} THEN 0 ELSE CHOOSE i \in seps : \A j \in seps : j <= i

\* os.path.dirname
DirName(p) == IF LastSep(p) = 0 THEN <<>> ELSE SubSeq(p, 1, LastSep(p) - 1)

\* os.path.basename
BaseName(p) == SubSeq(p, LastSep(p) + 1, Len(p))

\* os.path.join(root, file)
Join(root, file) == root \o Sep \o file

(***************************************************************************)
(* XML parts.  A part is well formed or not; a well-formed part holds      *)
(* nprot sheetProtection elements of the spreadsheet namespace; fmt tells  *)
(* whether its bytes are as the producer wrote them or as lxml serialized  *)
(* them (XML declaration, UTF-8, pretty_print).                            *)
(***************************************************************************)
Part(wf, n) == [kind |-> "file", wf |-> wf, nprot |-> n, fmt |-> "orig"]
DirEntry == [kind |-> "dir", wf |-> FALSE, nprot |-> 0, fmt |-> "none"]
Truncated == [kind |-> "file", wf |-> FALSE, nprot |-> 0, fmt |-> "cut"]

\* line 82: etree.parse succeeds only on a well-formed file
Parses(c) == c.kind = "file" /\ c.wf

\* line 87: sheet_protection is not None
HasProtection(c) == Parses(c) /\ c.nprot > 0

\* lines 86-92: root.find gives the first sheetProtection element, which is
\* removed from its parent; the tree is then serialized over the file
Stripped(c) ==
    [c EXCEPT !.nprot = IF c.nprot > 0 THEN c.nprot - 1 ELSE 0, !.fmt = "lxml"]

(***************************************************************************)
(* Zip entries and packages.  An entry name is a directory (a sequence of  *)
(* components), a base name and an extension; a package maps its entry     *)
(* names to parts or to explicit directory entries.                        *)
(***************************************************************************)
WorksheetsDir == <<"xl", "worksheets">>
Workbook == [dir |-> <<"xl">>, base |-> "workbook", ext |-> ".xml"]
Sheet1 == [dir |-> WorksheetsDir, base |-> "sheet1", ext |-> ".xml"]
Sheet2 == [dir |-> WorksheetsDir, base |-> "sheet2", ext |-> ".xml"]
Rels == [dir |-> <<"xl", "worksheets", "_rels">>, base |-> "sheet1.xml", ext |-> ".rels"]
DocProps == [dir |-> <<>>, base |-> "docProps", ext |-> ""]

NoEntries == [e \in {} |-> DirEntry]

\* sheet1 protected, sheet2 not
PkgTwo ==
    (Sheet1 :> Part(TRUE, 1)) @@ (Sheet2 :> Part(TRUE, 0))
        @@ (Workbook :> Part(TRUE, 0)) @@ (Rels :> Part(TRUE, 0))
\* one sheet with as many protection elements as the model allows
PkgMany == (Sheet1 :> Part(TRUE, MaxProt)) @@ (Workbook :> Part(TRUE, 0))
\* sheet1 malformed, sheet2 protected, and an explicit directory entry
PkgBad ==
    (Sheet1 :> Part(FALSE, 0)) @@ (Sheet2 :> Part(TRUE, 1))
        @@ (Workbook :> Part(TRUE, 0)) @@ (Rels :> Part(TRUE, 0))
        @@ (DocProps :> DirEntry)
\* a zip archive without xl/worksheets
PkgNoSheets == (Workbook :> Part(TRUE, 0))
\* xl/worksheets holds no .xml file
PkgNoXml == (Rels :> Part(TRUE, 0)) @@ (Workbook :> Part(TRUE, 0))
\* one protected sheet
PkgOne == (Sheet1 :> Part(TRUE, 1)) @@ (Workbook :> Part(TRUE, 0))

Packages == {PkgTwo, PkgMany, PkgBad, PkgNoSheets}

\* the directories a/b/c, a/b and a of a directory path a/b/c
Ancestors(d) == {SubSeq(d, 1, k) : k \in 1..Len(d)}

\* the files of pkg
FileEntries(pkg) == {e \in DOMAIN pkg : pkg[e].kind = "file"}

\* a directory without files or subdirectories
EmptyTree == [files |-> NoEntries, dirs |-> {}]

\* lines 67-68: extractall writes every file entry under the workspace, making
\* its parent directories, and makes a directory for every directory entry
ExtractAll(pkg) ==
    [files |-> [e \in FileEntries(pkg) |-> pkg[e]],
     dirs |-> UNION ({Ancestors(e.dir) : e \in FileEntries(pkg)}
                \cup {Ancestors(e.dir \o <<e.base>>) : e \in DOMAIN pkg \ FileEntries(pkg)})]

\* lines 72, 99: os.listdir(worksheets_dir) raises unless the directory exists
HasWorksheetsDir(tree) == WorksheetsDir \in tree.dirs

\* the mutant of SheetFiles: every .xml file of the workspace is a sheet
SheetFilesAnyXml(tree) == {e \in DOMAIN tree.files : e.ext = ".xml"}

\* line 99: [f for f in os.listdir(worksheets_dir) if f.endswith(".xml")]
SheetFiles(tree) ==
    {e \in DOMAIN tree.files : e.dir = WorksheetsDir /\ e.ext = ".xml"}

\* lines 116-120: os.walk yields the files of the workspace; each is written
\* under its path relative to the workspace
WalkedFiles(tree) == tree.files

\* line 116: os.walk is top down, so the files of a directory are written
\* before the files of the directories below it
WalkedFirst(all, written) ==
    \A e \in written : \A x \in all :
        (Len(x.dir) < Len(e.dir) /\ SubSeq(e.dir, 1, Len(x.dir)) = x.dir)
            => x \in written

\* the workspace as a fault-free run of every process_sheet leaves it
ProcessedAll(tree) ==
    [tree EXCEPT !.files =
        [e \in DOMAIN tree.files |->
            IF e \in SheetFiles(tree) /\ Parses(tree.files[e])
            THEN Stripped(tree.files[e]) ELSE tree.files[e]]]

(***************************************************************************)
(* The file system: a node per path.                                       *)
(***************************************************************************)
Absent == [kind |-> "absent", zip |-> "none", ents |-> NoEntries]
Directory == [kind |-> "dir", zip |-> "none", ents |-> NoEntries]
NotZip == [kind |-> "file", zip |-> "notzip", ents |-> NoEntries]
Archive(ents) == [kind |-> "file", zip |-> "zip", ents |-> ents]
\* a zip file open for writing: no central directory yet
Writing == [kind |-> "file", zip |-> "writing", ents |-> NoEntries]

PathD == <<"d">>
PathA == Join(PathD, <<"a">> \o DotXlsx)
PathU == Join(PathD, <<"a">> \o Unprotected \o DotXlsx)
PathUpper == Join(PathD, <<"B", ".", "X", "L", "S">>)
PathE == Join(PathD, <<"e">> \o DotXls)
PathB == Join(PathE, <<"b">> \o DotXlsm)
PathMissing == Join(PathD, <<"m">> \o DotXls)

GivenPaths == {PathD, PathA, PathU, PathUpper, PathE, PathB, PathMissing}

\* line 59: output_file = file_path.replace('.xls', '_unprotected.xls'),
\* computed once for every path a call can be given
OutputFiles == [p \in GivenPaths |-> Replace(p, DotXls, Unprotected \o DotXls)]
OutputFile(file_path) == OutputFiles[file_path]

OutputPaths == {OutputFile(p) : p \in GivenPaths}
Paths ==
    GivenPaths \cup OutputPaths \cup ({DirName(p) : p \in OutputPaths} \ {<<>>})

\* os.path.exists; the current directory <<>> always exists
Exists(f, p) == p = <<>> \/ (p \in DOMAIN f /\ f[p].kind # "absent")
\* os.path.isfile
IsFile(f, p) == p \in DOMAIN f /\ f[p].kind = "file"
\* os.path.isdir
IsDir(f, p) == p = <<>> \/ (p \in DOMAIN f /\ f[p].kind = "dir")

\* every enumeration of a finite set, as a sequence without repetition
Perms(S) ==
    {q \in [1..Cardinality(S) -> S] : \A i, j \in 1..Cardinality(S) : q[i] = q[j] => i = j}

\* the concatenations s_1 \o ... \o s_n with s_i drawn from sets[i]
RECURSIVE Concats(_)
Concats(sets) ==
    IF sets = <<>> THEN {<<>>}
    ELSE {h \o t : h \in Head(sets), t \in Concats(Tail(sets))}

\* the mutant of WalkOrders: only the files directly in the directory
WalkOrdersFlat(f, top) ==
    Perms({p \in DOMAIN f : IsFile(f, p) /\ DirName(p) = top /\ IsExcelName(BaseName(p))})

\* lines 150-154: os.walk(input_path), top down; the files of a directory in
\* the order the directory lists them, then its subdirectories; a file is
\* appended when its name ends with a recognized extension
RECURSIVE WalkOrders(_, _)
WalkOrders(f, top) ==
    LET files == {p \in DOMAIN f : IsFile(f, p) /\ DirName(p) = top}
        dirs == {p \in DOMAIN f : IsDir(f, p) /\ DirName(p) = top}
        own == Perms({p \in files : IsExcelName(BaseName(p))})
        below == UNION {Concats([i \in 1..Len(dp) |-> WalkOrders(f, dp[i])]) : dp \in Perms(dirs)}
    IN  {o \o b : o \in own, b \in below}

(***************************************************************************)
(* The state of one run.                                                   *)
(***************************************************************************)
VARIABLES
    call,          \* the function called, its path argument and max_workers
    fs,            \* the file system
    fs0,           \* the file system as it was when the call was made
    upc,           \* where the called function is
    excel_files,   \* line 144: the units, in the order of submission
    pc,            \* per unit: where remove_sheet_protection is
    tmp_dir,       \* per unit: the workspace (line 58), exists or not
    zip_ref,       \* per unit: the entries of the archive read (line 67)
    futures,       \* per unit: the sheet tasks (line 105), state and outcome
    sheet_pbar,    \* per unit: the progress counter of line 102
    logged,        \* per unit: the error logged by lines 124-129
    result,        \* per unit: the value remove_sheet_protection returned
    list_outfile,  \* line 159: the output paths collected
    file_log,      \* the units for which line 168 logged an error
    pbar,          \* line 161: the progress counter over files
    faults         \* the environment faults injected so far

vars ==
    <<call, fs, fs0, upc, excel_files, pc, tmp_dir, zip_ref, futures,
      sheet_pbar, logged, result, list_outfile, file_log, pbar, faults>>

None == <<>>
NoDir == [exists |-> FALSE, tree |-> EmptyTree, name |-> 0]
NoFutures == [e \in {} |-> [state |-> "pending", outcome |-> "none"]]

Min(a, b) == IF a < b THEN a ELSE b

\* line 49: max_workers=10
DefaultMaxWorkers == 10

Units == 1..Len(excel_files)

\* the output of an earlier fault-free run on the archive pkg
EarlierOutput(pkg) == Archive(WalkedFiles(ProcessedAll(ExtractAll(pkg))))

InitialFiles ==
    {<<Archive(pkg), Absent>> : pkg \in Packages}
        \cup {<<Archive(pkg), EarlierOutput(pkg)>> :
                pkg \in {q \in Packages : HasWorksheetsDir(ExtractAll(q))}}
        \cup {<<NotZip, Absent>>}

Calls ==
    {[fn |-> "main", path |-> p, max_workers |-> 0] :
        p \in {PathD, PathA, PathUpper, PathMissing}}
    \cup {[fn |-> "unlock_excel_sheets", path |-> p, max_workers |-> w] :
        p \in {PathD, PathUpper, PathMissing}, w \in 1..MaxBudget}
    \cup {[fn |-> "remove_sheet_protection", path |-> p, max_workers |-> w] :
        p \in {PathA, PathUpper, PathMissing, PathB}, w \in 1..MaxBudget}

Init ==
    /\ call \in Calls
    /\ \E init \in InitialFiles :
        fs = [p \in Paths |->
                CASE p \in {PathD, PathE} -> Directory
                  [] p = PathA -> init[1]
                  [] p = PathU -> init[2]
                  [] p = PathUpper -> Archive(PkgOne)
                  [] p = PathB -> Archive(PkgNoXml)
                  [] OTHER -> Absent]
    /\ fs0 = fs
    /\ upc = call.fn
    /\ excel_files = <<>>
    /\ pc = <<>>
    /\ tmp_dir = <<>>
    /\ zip_ref = <<>>
    /\ futures = <<>>
    /\ sheet_pbar = <<>>
    /\ logged = <<>>
    /\ result = <<>>
    /\ list_outfile = <<>>
    /\ file_log = {}
    /\ pbar = 0
    /\ faults = 0

(***************************************************************************)
(* main and unlock_excel_sheets.                                           *)
(***************************************************************************)
\* lines 162, 228: max_workers=None makes the pool min(32, cpu_count + 4) wide
FileBudget ==
    IF call.max_workers = 0 THEN Min(32, CpuCount + 4) ELSE call.max_workers

\* line 163 submits remove_sheet_protection(file_path): max_workers defaults
SheetBudget ==
    IF call.fn = "remove_sheet_protection" THEN call.max_workers
    ELSE DefaultMaxWorkers

\* the per-unit state right after the units are submitted
Submit(files) ==
    /\ excel_files' = files
    /\ pc' = [i \in 1..Len(files) |-> "queued"]
    /\ tmp_dir' = [i \in 1..Len(files) |-> NoDir]
    /\ zip_ref' = [i \in 1..Len(files) |-> NoEntries]
    /\ futures' = [i \in 1..Len(files) |-> NoFutures]
    /\ sheet_pbar' = [i \in 1..Len(files) |-> 0]
    /\ logged' = [i \in 1..Len(files) |-> "none"]
    /\ result' = [i \in 1..Len(files) |-> None]

\* lines 226-232: main calls unlock_excel_sheets on a path that exists
Main ==
    /\ upc = "main"
    /\ upc' = IF Exists(fs, call.path) THEN "unlock_excel_sheets" ELSE "no such path"
    /\ UNCHANGED <<call, fs0, fs, excel_files, pc, tmp_dir, zip_ref, futures,
                   sheet_pbar, logged, result, list_outfile, file_log, pbar, faults>>

\* the mutant of Expansions: any path that exists is taken as one unit
ExpansionsOfAnything(f, input_path) ==
    IF IsDir(f, input_path) THEN WalkOrders(f, input_path)
    ELSE IF Exists(f, input_path) THEN {<<input_path>>} ELSE {}

\* lines 144-157: the lists excel_files can be; none when the path is invalid
Expansions(f, input_path) ==
    IF IsFile(f, input_path) /\ IsExcelName(input_path) THEN {<<input_path>>}
    ELSE IF IsDir(f, input_path) THEN WalkOrders(f, input_path)
    ELSE {}

\* lines 144-163: the input path is expanded and every unit submitted, or
\* the path is reported invalid and the call returns
Expand ==
    /\ upc = "unlock_excel_sheets"
    /\ IF Expansions(fs, call.path) = {}
       THEN /\ upc' = "invalid input"
            /\ UNCHANGED <<excel_files, pc, tmp_dir, zip_ref, futures,
                           sheet_pbar, logged, result>>
       ELSE /\ upc' = "pool"
            /\ \E files \in Expansions(fs, call.path) : Submit(files)
    /\ UNCHANGED <<call, fs0, fs, list_outfile, file_log, pbar, faults>>

\* remove_sheet_protection called on its own
CallRemove ==
    /\ upc = "remove_sheet_protection"
    /\ upc' = "direct"
    /\ Submit(<<call.path>>)
    /\ UNCHANGED <<call, fs0, fs, list_outfile, file_log, pbar, faults>>

(***************************************************************************)
(* remove_sheet_protection, one unit u.                                    *)
(***************************************************************************)
\* the units a worker of the file-level pool is running
Running == {u \in Units : pc[u] \in {"begun", "sheets", "packing", "packed", "failed"}}

\* the sheet tasks of u a worker of its pool is running
RunningSheets(u) == {s \in DOMAIN futures[u] : futures[u][s].state = "running"}

\* the mutant of Fail: the except branch leaves the workspace state unset
\* for the finally clause, which then skips the unit
FailNoCleanup(u, error) ==
    /\ pc' = [pc EXCEPT ![u] = "returned"]
    /\ logged' = [logged EXCEPT ![u] = error]

\* lines 124-129: the exception is caught and logged
Fail(u, error) ==
    /\ pc' = [pc EXCEPT ![u] = "failed"]
    /\ logged' = [logged EXCEPT ![u] = error]

\* line 58: tempfile.mkdtemp makes a directory under a name no directory has;
\* the names are numbered in the order in which the run makes them
mkdtemp == Cardinality({v \in Units : pc[v] # "queued"}) + 1

\* the mutant of Begin for the workspace: a directory of a fixed name is made
\* (os.makedirs(name, exist_ok=True)) instead of a fresh one
BeginFixedDir(u) ==
    /\ pc[u] = "queued"
    /\ \A v \in 1..(u - 1) : pc[v] # "queued"
    /\ upc = "pool" => Cardinality(Running) < FileBudget
    /\ pc' = [pc EXCEPT ![u] = "begun"]
    /\ tmp_dir' = [tmp_dir EXCEPT ![u] = [exists |-> TRUE, tree |-> EmptyTree, name |-> 1]]
    /\ UNCHANGED <<call, fs0, fs, upc, excel_files, zip_ref, futures, sheet_pbar,
                   logged, result, list_outfile, file_log, pbar, faults>>

\* the mutant of Begin: the pool starts a thread for every unit submitted,
\* whatever max_workers is
BeginUnbounded(u) ==
    /\ pc[u] = "queued"
    /\ \A v \in 1..(u - 1) : pc[v] # "queued"
    /\ pc' = [pc EXCEPT ![u] = "begun"]
    /\ tmp_dir' = [tmp_dir EXCEPT ![u] = [exists |-> TRUE, tree |-> EmptyTree, name |-> mkdtemp]]
    /\ UNCHANGED <<call, fs0, fs, upc, excel_files, zip_ref, futures, sheet_pbar,
                   logged, result, list_outfile, file_log, pbar, faults>>

\* lines 58-59: a worker takes the next unit (in the order of submission)
\* and makes its workspace
Begin(u) ==
    /\ pc[u] = "queued"
    /\ \A v \in 1..(u - 1) : pc[v] # "queued"
    /\ upc = "pool" => Cardinality(Running) < FileBudget
    /\ pc' = [pc EXCEPT ![u] = "begun"]
    /\ tmp_dir' = [tmp_dir EXCEPT ![u] = [exists |-> TRUE, tree |-> EmptyTree, name |-> mkdtemp]]
    /\ UNCHANGED <<call, fs0, fs, upc, excel_files, zip_ref, futures, sheet_pbar,
                   logged, result, list_outfile, file_log, pbar, faults>>

\* lines 63-105: the file is checked, opened as a zip archive and extracted;
\* the sheet files are listed and one task per sheet file is submitted
Extract(u) ==
    LET file_path == excel_files[u]
        tree == ExtractAll(fs[file_path].ents)
    IN
    /\ pc[u] = "begun"
    /\ IF ~Exists(fs, file_path)
       THEN /\ Fail(u, "FileNotFoundError")
            /\ UNCHANGED <<tmp_dir, zip_ref, futures>>
       ELSE IF fs[file_path].kind = "dir"
       THEN /\ Fail(u, "Exception")
            /\ UNCHANGED <<tmp_dir, zip_ref, futures>>
       ELSE IF fs[file_path].zip # "zip"
       THEN /\ Fail(u, "BadZipFile")
            /\ UNCHANGED <<tmp_dir, zip_ref, futures>>
       ELSE /\ tmp_dir' = [tmp_dir EXCEPT ![u].tree = tree]
            /\ zip_ref' = [zip_ref EXCEPT ![u] = fs[file_path].ents]
            /\ IF ~HasWorksheetsDir(tree)
               THEN /\ Fail(u, "FileNotFoundError")
                    /\ UNCHANGED futures
               ELSE /\ pc' = [pc EXCEPT ![u] = "sheets"]
                    /\ futures' = [futures EXCEPT ![u] =
                            [s \in SheetFiles(tree) |->
                                [state |-> "pending", outcome |-> "none"]]]
                    /\ UNCHANGED logged
    /\ UNCHANGED <<call, fs0, fs, upc, excel_files, sheet_pbar, result,
                   list_outfile, file_log, pbar, faults>>

\* the mutant of SheetStart: the sheet tasks are submitted to the file-level
\* pool, whose workers the running calls of remove_sheet_protection hold
SheetStartInFilePool(u, s) ==
    /\ pc[u] = "sheets"
    /\ futures[u][s].state = "pending"
    /\ Cardinality(RunningSheets(u)) < SheetBudget
    /\ upc = "pool" => Cardinality(Running) + Cardinality(RunningSheets(u)) < FileBudget
    /\ futures' = [futures EXCEPT ![u][s].state = "running"]
    /\ UNCHANGED <<call, fs0, fs, upc, excel_files, pc, tmp_dir, zip_ref, sheet_pbar,
                   logged, result, list_outfile, file_log, pbar, faults>>

\* line 105: a worker of the sheet pool takes a task
SheetStart(u, s) ==
    /\ pc[u] = "sheets"
    /\ futures[u][s].state = "pending"
    /\ Cardinality(RunningSheets(u)) < SheetBudget
    /\ futures' = [futures EXCEPT ![u][s].state = "running"]
    /\ UNCHANGED <<call, fs0, fs, upc, excel_files, pc, tmp_dir, zip_ref, sheet_pbar,
                   logged, result, list_outfile, file_log, pbar, faults>>

\* lines 80-96, process_sheet: the sheet is parsed, its first sheetProtection
\* element removed and the tree written back; a parse error is logged
SheetRun(u, s) ==
    LET c == tmp_dir[u].tree.files[s] IN
    /\ pc[u] = "sheets"
    /\ futures[u][s].state = "running"
    /\ IF Parses(c)
       THEN /\ tmp_dir' = [tmp_dir EXCEPT ![u].tree.files[s] = Stripped(c)]
            /\ futures' = [futures EXCEPT ![u][s] =
                    [state |-> "done",
                     outcome |-> IF HasProtection(c) THEN "removed" ELSE "kept"]]
       ELSE /\ futures' = [futures EXCEPT ![u][s] =
                    [state |-> "done", outcome |-> "XMLSyntaxError"]]
            /\ UNCHANGED tmp_dir
    /\ UNCHANGED <<call, fs0, fs, upc, excel_files, pc, zip_ref, sheet_pbar, logged,
                   result, list_outfile, file_log, pbar, faults>>

\* the mutant of SheetFault: the exception leaves process_sheet and the loop
\* of line 106, and ends the pipeline of the file
SheetFaultAborts(u, s) ==
    /\ pc[u] = "sheets"
    /\ futures[u][s].state = "running"
    /\ faults < MaxFaults
    /\ faults' = faults + 1
    /\ futures' = [futures EXCEPT ![u][s] = [state |-> "done", outcome |-> "Exception"]]
    /\ Fail(u, "Exception")
    /\ UNCHANGED <<call, fs0, fs, upc, excel_files, tmp_dir, zip_ref, sheet_pbar,
                   result, list_outfile, file_log, pbar>>

\* lines 95-96: any other exception in process_sheet (an I/O error while
\* reading, or while writing, which leaves the file cut short) is logged
SheetFault(u, s) ==
    /\ pc[u] = "sheets"
    /\ futures[u][s].state = "running"
    /\ faults < MaxFaults
    /\ faults' = faults + 1
    /\ futures' = [futures EXCEPT ![u][s] = [state |-> "done", outcome |-> "Exception"]]
    /\ \E cut \in BOOLEAN :
        tmp_dir' = IF cut THEN [tmp_dir EXCEPT ![u].tree.files[s] = Truncated]
                   ELSE tmp_dir
    /\ UNCHANGED <<call, fs0, fs, upc, excel_files, pc, zip_ref, sheet_pbar, logged,
                   result, list_outfile, file_log, pbar>>

\* lines 39-41: logging.basicConfig(level=logging.INFO); the numeric levels
\* are those of the logging module
LevelNo == [DEBUG |-> 10, INFO |-> 20, ERROR |-> 40]
LogLevel == "INFO"

\* a record of this level is handed to the handlers of lines 43-46
Emitted(level) == LevelNo[level] >= LevelNo[LogLevel]

\* lines 89, 94, 96: the level of the record process_sheet logs; it logs
\* nothing for a sheet without the element
SheetRecordLevel(outcome) ==
    CASE outcome = "removed" -> "DEBUG"
      [] outcome \in {"XMLSyntaxError", "Exception"} -> "ERROR"
      [] OTHER -> "none"

\* lines 74-96, 108: process_sheet has no return statement, so the value
\* future.result() gives for a sheet is None
SheetResult(u, s) == None

\* lines 87-89, 108: what the run tells about the removal in sheet s of u,
\* through the value of its task or through the log
ReportedRemoved(u, s) ==
    \/ SheetResult(u, s) # None
    \/ /\ futures[u][s].outcome = "removed"
       /\ Emitted(SheetRecordLevel(futures[u][s].outcome))

\* lines 106-112: as_completed yields a finished task; the bar advances
SheetCollect(u, s) ==
    /\ pc[u] = "sheets"
    /\ futures[u][s].state = "done"
    /\ futures' = [futures EXCEPT ![u][s].state = "collected"]
    /\ sheet_pbar' = [sheet_pbar EXCEPT ![u] = @ + 1]
    /\ UNCHANGED <<call, fs0, fs, upc, excel_files, pc, tmp_dir, zip_ref, logged,
                   result, list_outfile, file_log, pbar, faults>>

\* the mutant of PackOpen: the sheet pool is shut down without waiting
\* (shutdown(wait=False)), so packing starts once the tasks are submitted
PackOpenEarly(u) ==
    LET output_file == OutputFile(excel_files[u]) IN
    /\ pc[u] = "sheets"
    /\ IF ~IsDir(fs, DirName(output_file))
       THEN Fail(u, "FileNotFoundError") /\ UNCHANGED fs
       ELSE IF IsDir(fs, output_file)
       THEN Fail(u, "Exception") /\ UNCHANGED fs
       ELSE /\ fs' = [fs EXCEPT ![output_file] = Writing]
            /\ pc' = [pc EXCEPT ![u] = "packing"]
            /\ UNCHANGED logged
    /\ UNCHANGED <<call, fs0, upc, excel_files, tmp_dir, zip_ref, futures, sheet_pbar,
                   result, list_outfile, file_log, pbar, faults>>

\* line 115: after the sheet pool has shut down, the output file is opened
\* for writing, which truncates it
PackOpen(u) ==
    LET output_file == OutputFile(excel_files[u]) IN
    /\ pc[u] = "sheets"
    /\ \A s \in DOMAIN futures[u] : futures[u][s].state = "collected"
    /\ IF ~IsDir(fs, DirName(output_file))
       THEN Fail(u, "FileNotFoundError") /\ UNCHANGED fs
       ELSE IF IsDir(fs, output_file)
       THEN Fail(u, "Exception") /\ UNCHANGED fs
       ELSE /\ fs' = [fs EXCEPT ![output_file] = Writing]
            /\ pc' = [pc EXCEPT ![u] = "packing"]
            /\ UNCHANGED logged
    /\ UNCHANGED <<call, fs0, upc, excel_files, tmp_dir, zip_ref, futures, sheet_pbar,
                   result, list_outfile, file_log, pbar, faults>>

\* lines 116-121: every file of the workspace is written and the archive closed
PackWrite(u) ==
    /\ pc[u] = "packing"
    /\ fs' = [fs EXCEPT ![OutputFile(excel_files[u])] =
                Archive(WalkedFiles(tmp_dir[u].tree))]
    /\ pc' = [pc EXCEPT ![u] = "packed"]
    /\ UNCHANGED <<call, fs0, upc, excel_files, tmp_dir, zip_ref, futures, sheet_pbar,
                   logged, result, list_outfile, file_log, pbar, faults>>

\* lines 115-120, 128-129: an I/O error while packing; leaving the with block
\* closes the archive over the entries written so far
PackFault(u) ==
    /\ pc[u] = "packing"
    /\ faults < MaxFaults
    /\ faults' = faults + 1
    /\ \E written \in SUBSET DOMAIN WalkedFiles(tmp_dir[u].tree) :
        /\ written # DOMAIN WalkedFiles(tmp_dir[u].tree)
        /\ WalkedFirst(DOMAIN WalkedFiles(tmp_dir[u].tree), written)
        /\ fs' = [fs EXCEPT ![OutputFile(excel_files[u])] =
                    Archive([e \in written |-> WalkedFiles(tmp_dir[u].tree)[e]])]
    /\ Fail(u, "Exception")
    /\ UNCHANGED <<call, fs0, upc, excel_files, tmp_dir, zip_ref, futures, sheet_pbar,
                   result, list_outfile, file_log, pbar>>

\* lines 122, 130-134: the finally clause deletes the workspace; the call
\* returns the output path, or None after an exception
Cleanup(u) ==
    /\ pc[u] \in {"packed", "failed"}
    /\ tmp_dir' = [tmp_dir EXCEPT ![u] = NoDir]
    /\ result' = [result EXCEPT ![u] =
            IF pc[u] = "packed" THEN OutputFile(excel_files[u]) ELSE None]
    /\ pc' = [pc EXCEPT ![u] = "returned"]
    /\ UNCHANGED <<call, fs0, fs, upc, excel_files, zip_ref, futures, sheet_pbar,
                   logged, list_outfile, file_log, pbar, faults>>

(***************************************************************************)
(* unlock_excel_sheets, the collection of the results.                     *)
(***************************************************************************)
\* the mutant of Collect: pbar.update(1) follows the append inside the try,
\* so the TypeError of a failed unit skips it
CollectSkipsFailed(u) ==
    /\ upc = "pool"
    /\ pc[u] = "returned"
    /\ pc' = [pc EXCEPT ![u] = "collected"]
    /\ IF result[u] # None
       THEN /\ list_outfile' = Append(list_outfile, result[u])
            /\ pbar' = IF Len(excel_files) > 1 THEN pbar + 1 ELSE pbar
            /\ UNCHANGED file_log
       ELSE /\ file_log' = file_log \cup {u}
            /\ UNCHANGED <<list_outfile, pbar>>
    /\ UNCHANGED <<call, fs0, fs, upc, excel_files, tmp_dir, zip_ref, futures,
                   sheet_pbar, logged, result, faults>>

\* lines 164-170: as_completed yields a finished unit; its path is appended,
\* or None + "\n" raises TypeError, which is logged; the bar advances when
\* there are several files
Collect(u) ==
    /\ upc = "pool"
    /\ pc[u] = "returned"
    /\ pc' = [pc EXCEPT ![u] = "collected"]
    /\ IF result[u] # None
       THEN list_outfile' = Append(list_outfile, result[u]) /\ UNCHANGED file_log
       ELSE file_log' = file_log \cup {u} /\ UNCHANGED list_outfile
    /\ pbar' = IF Len(excel_files) > 1 THEN pbar + 1 ELSE pbar
    /\ UNCHANGED <<call, fs0, fs, upc, excel_files, tmp_dir, zip_ref, futures,
                   sheet_pbar, logged, result, faults>>

\* line 171: every unit is collected, the pool shuts down, the list is returned
Return ==
    /\ upc = "pool"
    /\ \A u \in Units : pc[u] = "collected"
    /\ upc' = "returned"
    /\ UNCHANGED <<call, fs0, fs, excel_files, pc, tmp_dir, zip_ref, futures,
                   sheet_pbar, logged, result, list_outfile, file_log, pbar, faults>>

Next ==
    \/ Main
    \/ Expand
    \/ CallRemove
    \/ Return
    \/ \E u \in Units : Begin(u)
    \/ \E u \in Units : Extract(u)
    \/ \E u \in Units : \E s \in DOMAIN futures[u] : SheetStart(u, s)
    \/ \E u \in Units : \E s \in DOMAIN futures[u] : SheetRun(u, s)
    \/ \E u \in Units : \E s \in DOMAIN futures[u] : SheetFault(u, s)
    \/ \E u \in Units : \E s \in DOMAIN futures[u] : SheetCollect(u, s)
    \/ \E u \in Units : PackOpen(u)
    \/ \E u \in Units : PackWrite(u)
    \/ \E u \in Units : PackFault(u)
    \/ \E u \in Units : Cleanup(u)
    \/ \E u \in Units : Collect(u)

Spec == Init /\ [][Next]_vars

\* the steps of the program itself, without the faults of the environment
Step ==
    \/ Main
    \/ Expand
    \/ CallRemove
    \/ Return
    \/ \E u \in Units : Begin(u)
    \/ \E u \in Units : Extract(u)
    \/ \E u \in Units : \E s \in DOMAIN futures[u] : SheetStart(u, s)
    \/ \E u \in Units : \E s \in DOMAIN futures[u] : SheetRun(u, s)
    \/ \E u \in Units : \E s \in DOMAIN futures[u] : SheetCollect(u, s)
    \/ \E u \in Units : PackOpen(u)
    \/ \E u \in Units : PackWrite(u)
    \/ \E u \in Units : Cleanup(u)
    \/ \E u \in Units : Collect(u)

\* the threads are scheduled fairly: while some thread of the program can
\* take a step, a step is eventually taken
FairSpec == Spec /\ WF_vars(Step)

(***************************************************************************)
(* Vocabulary of the properties.                                           *)
(***************************************************************************)
Range(q) == {q[i] : i \in DOMAIN q}

\* the call of remove_sheet_protection for unit u has returned
Finished(u) == pc[u] \in {"returned", "collected"}

\* the call for unit u returned its output path
Succeeded(u) == Finished(u) /\ result[u] # None

\* the worksheet XML parts of an archive: the .xml files in xl/worksheets
SheetParts(pkg) ==
    {e \in DOMAIN pkg : pkg[e].kind = "file" /\ e.dir = WorksheetsDir /\ e.ext = ".xml"}

\* no I/O fault was injected into a sheet task of u
NoSheetFault(u) == \A s \in DOMAIN futures[u] : futures[u][s].outcome # "Exception"

\* the archive unit u wrote
Output(u) == fs[result[u]].ents

(***************************************************************************)
(* C1. The workspace of a call of remove_sheet_protection exists only      *)
(* while the call is running: it does not exist before the call has begun  *)
(* and no longer exists once the call has returned, on every exit path.    *)
(***************************************************************************)
C1_WorkspaceOnlyWhileRunning ==
    \A u \in Units : tmp_dir[u].exists => u \in Running

\* a call whose packing failed part way has returned, its workspace is gone
C1_Witness ==
    \E u \in Units :
        /\ Finished(u) /\ logged[u] = "Exception" /\ ~tmp_dir[u].exists
        /\ fs[OutputFile(excel_files[u])].zip = "zip"
        /\ fs[OutputFile(excel_files[u])] # fs0[OutputFile(excel_files[u])]

CanSucceed(u) ==
    LET p == excel_files[u] IN
    /\ fs0[p].zip = "zip"
    /\ HasWorksheetsDir(ExtractAll(fs0[p].ents))
    /\ IsDir(fs0, DirName(OutputFile(p)))
    /\ ~IsDir(fs0, OutputFile(p))

C3_OneResultPerUnit ==
    upc = "returned" =>
        /\ Len(list_outfile) + Cardinality(file_log) = Len(excel_files)
        /\ \A u \in Units :
            /\ result[u] # None =>
                (OutputFile(excel_files[u]) \in Range(list_outfile) /\ u \notin file_log)
            /\ result[u] = None => (u \in file_log /\ logged[u] # "none")

C3_FailureIsolated ==
    C3_OneResultPerUnit
    /\ (upc = "returned" =>
            \A u \in Units :
                (CanSucceed(u) /\ logged[u] # "Exception") =>
                    OutputFile(excel_files[u]) \in Range(list_outfile))

(***************************************************************************)
(* C4. A fault in one sheet task stays with that sheet.  Once the pipeline *)
(* of a file has left its sheet phase, every sheet task of the file has    *)
(* run and been collected, and every sheet that parsed and met no fault is *)
(* stripped, in the workspace and in the archive written from it; the      *)
(* pipeline fails only for a reason of its own (extraction or packing),    *)
(* and returns its output path otherwise.  A step that finishes a sheet    *)
(* task changes nothing of any other unit, and nothing on the file system. *)
(***************************************************************************)
\* sheet s of unit u is as process_sheet has to leave it
SheetSettled(u, s, part) ==
    /\ futures[u][s].state = "collected"
    /\ futures[u][s].outcome \in {"removed", "kept"} <=>
            (Parses(zip_ref[u][s]) /\ futures[u][s].outcome # "Exception")
    /\ futures[u][s].outcome \in {"removed", "kept"} => part = Stripped(zip_ref[u][s])
    /\ futures[u][s].outcome = "XMLSyntaxError" => part = zip_ref[u][s]

C4_SheetFaultStaysLocal ==
    \A u \in Units :
        /\ (pc[u] \in {"packing", "packed"} \/ (pc[u] = "failed" /\ futures[u] # NoFutures)) =>
                \A s \in DOMAIN futures[u] : SheetSettled(u, s, tmp_dir[u].tree.files[s])
        /\ Succeeded(u) =>
                /\ SheetParts(zip_ref[u]) = DOMAIN futures[u]
                /\ \A s \in DOMAIN futures[u] : SheetSettled(u, s, Output(u)[s])
        /\ (Finished(u) /\ logged[u] = "none") => result[u] = OutputFile(excel_files[u])
        /\ pc[u] = "sheets" => logged[u] = "none"

C4_SheetStepFrame ==
    \A u \in Units :
        (pc[u] = "sheets" /\ futures'[u] # futures[u]) =>
            /\ fs' = fs
            /\ pc' = pc
            /\ \A v \in Units \ {u} :
                /\ tmp_dir'[v] = tmp_dir[v]
                /\ futures'[v] = futures[v]
                /\ logged'[v] = logged[v]
                /\ result'[v] = result[v]

C4_SheetFaultIsolated == []C4_SheetFaultStaysLocal /\ [][C4_SheetStepFrame]_vars

\* a file with a malformed sheet, or with a sheet task that met a fault, has
\* been repacked, its other sheet stripped
C4_Witness ==
    \E u \in Units :
        /\ Succeeded(u)
        /\ \E s, t \in DOMAIN futures[u] :
            /\ futures[u][s].outcome \in {"XMLSyntaxError", "Exception"}
            /\ futures[u][t].outcome = "removed"
            /\ Output(u)[t] = Stripped(zip_ref[u][t])
            /\ ~HasProtection(Output(u)[t])

(***************************************************************************)
(* C5. The output path of a call of remove_sheet_protection differs from   *)
(* its input path, and a call that runs on its own leaves the input file   *)
(* as it was.                                                              *)
(***************************************************************************)
C5_InputNeverOverwritten ==
    \A u \in Units :
        Finished(u) =>
            /\ OutputFile(excel_files[u]) # excel_files[u]
            /\ Len(excel_files) = 1 => fs[excel_files[u]] = fs0[excel_files[u]]

(***************************************************************************)
(* C6. For an input path whose file name ends in .xls, .xlsx or .xlsm the  *)
(* output path is the input path with _unprotected inserted once, right    *)
(* before that extension, and nothing else changed.                        *)
(***************************************************************************)
\* the recognized extension a name ends with
Extension(name) ==
    IF EndsWith(name, DotXlsx) THEN DotXlsx
    ELSE IF EndsWith(name, DotXlsm) THEN DotXlsm
    ELSE DotXls

\* <directories>/<stem>_unprotected<ext>
MarkedBeforeExtension(p) ==
    SubSeq(p, 1, Len(p) - Len(Extension(p))) \o Unprotected \o Extension(p)

C6_MarkerBeforeExtension ==
    \A u \in Units :
        (pc[u] # "queued" /\ IsExcelName(BaseName(excel_files[u]))) =>
            OutputFile(excel_files[u]) = MarkedBeforeExtension(excel_files[u])

(***************************************************************************)
(* C7. Stripping is idempotent: a pipeline run on the output of an earlier *)
(* fault-free run removes no element from any sheet, leaves the content of *)
(* every sheet it parses unchanged and writes the same set of sheet parts. *)
(***************************************************************************)
\* unit u read the archive an earlier run had written to a_unprotected.xlsx
ReadsEarlierOutput(u) ==
    /\ excel_files[u] = PathU
    /\ zip_ref[u] # NoEntries
    /\ zip_ref[u] = fs0[PathU].ents

RECURSIVE LastDot(_)
LastDot(name) ==
    IF name = <<>> THEN 0
    ELSE IF name[Len(name)] = "." THEN Len(name)
    ELSE LastDot(SubSeq(name, 1, Len(name) - 1))

\* the extension of the file name of p is one of the three
HasRecognizedExtension(p) ==
    LET name == BaseName(p) IN
    /\ LastDot(name) > 0
    /\ SubSeq(name, LastDot(name), Len(name)) \in {DotXls, DotXlsx, DotXlsm}

\* the files of the tree below the directory top
FilesBelow(f, top) == {p \in DOMAIN f : f[p].kind = "file" /\ StartsWith(p, top \o Sep)}

C9_OneUnitPerRecognizedFile ==
    (IsDir(fs0, call.path) /\ upc \in {"pool", "returned"}) =>
        /\ Range(excel_files) = {p \in FilesBelow(fs0, call.path) : HasRecognizedExtension(p)}
        /\ Cardinality(Range(excel_files)) = Len(excel_files)
        /\ \A u \in file_log : HasRecognizedExtension(excel_files[u])

\* a tree with recognized files at two levels and a file that is not
C9_Witness ==
    /\ upc = "returned"
    /\ call.path = PathD
    /\ Range(excel_files) = {PathA, PathU, PathB}
    /\ PathUpper \in FilesBelow(fs0, PathD)
    /\ Len(list_outfile) + Cardinality(file_log) = 3

(***************************************************************************)
(* C10. Given a path that is neither a file with a recognized extension    *)
(* nor a directory, unlock_excel_sheets reports the path as invalid and    *)
(* returns: no unit, no pipeline, no workspace, no output, and the file    *)
(* system is as it was.                                                    *)
(***************************************************************************)
InvalidInput ==
    /\ ~(IsFile(fs0, call.path) /\ HasRecognizedExtension(call.path))
    /\ ~IsDir(fs0, call.path)

C10_InvalidInputDoesNothing ==
    (call.fn # "remove_sheet_protection" /\ InvalidInput
            /\ upc \notin {"main", "unlock_excel_sheets", "no such path"}) =>
        /\ upc = "invalid input"
        /\ excel_files = <<>>
        /\ pc = <<>>
        /\ tmp_dir = <<>>
        /\ list_outfile = <<>>
        /\ fs = fs0

\* unlock_excel_sheets was given a file that exists but is no spreadsheet by
\* its name, and has returned
C10_Witness ==
    /\ upc = "invalid input"
    /\ call.path = PathUpper
    /\ IsFile(fs, PathUpper)
    /\ fs = fs0

(***************************************************************************)
(* C11. The number of calls of remove_sheet_protection that workers of the *)
(* file-level pool are running never exceeds max_workers of that pool, and *)
(* for each file the number of its sheet tasks that are running never      *)
(* exceeds max_workers of remove_sheet_protection.                         *)
(***************************************************************************)
C11_WithinWorkerBudgets ==
    /\ upc \in {"pool", "returned"} => Cardinality(Running) <= FileBudget
    /\ \A u \in Units : Cardinality(RunningSheets(u)) <= SheetBudget

\* the file-level pool is full while a unit waits, and a sheet task of one
\* of the running units is running
C11_Witness ==
    /\ upc = "pool"
    /\ Cardinality(Running) = FileBudget
    /\ \E u \in Units : pc[u] = "queued"
    /\ \E u \in Running : RunningSheets(u) # {}

(***************************************************************************)
(* C12. Progress accounting.  The counter of each progress bar never       *)
(* decreases and advances by one per step; the bar of a file counts the    *)
(* sheet tasks collected, the bar over the files counts the units          *)
(* collected, failed ones included, and neither exceeds the number of      *)
(* tasks that have completed; once the sheet phase of a file is over its   *)
(* bar equals the number of sheet tasks submitted, and when                *)
(* unlock_excel_sheets returns from more than one file the bar over the    *)
(* files equals the number of units.                                       *)
(***************************************************************************)
\* the sheet tasks of u that have completed, and those as_completed has given
CompletedSheets(u) ==
    {s \in DOMAIN futures[u] : futures[u][s].state \in {"done", "collected"}}
CollectedSheets(u) == {s \in DOMAIN futures[u] : futures[u][s].state = "collected"}

\* the sheet phase of u is over
SheetsOver(u) ==
    \/ pc[u] \in {"packing", "packed"}
    \/ pc[u] \in {"failed", "returned", "collected"} /\ zip_ref[u] # NoEntries
            /\ HasWorksheetsDir(ExtractAll(zip_ref[u]))

C12_ProgressCounts ==
    /\ \A u \in Units :
        /\ sheet_pbar[u] = Cardinality(CollectedSheets(u))
        /\ sheet_pbar[u] <= Cardinality(CompletedSheets(u))
        /\ SheetsOver(u) => sheet_pbar[u] = Cardinality(SheetFiles(ExtractAll(zip_ref[u])))
    /\ pbar <= Cardinality({u \in Units : Finished(u)})
    /\ Len(excel_files) > 1 => pbar = Cardinality({u \in Units : pc[u] = "collected"})
    /\ Len(excel_files) <= 1 => pbar = 0
    /\ (upc = "returned" /\ Len(excel_files) > 1) => pbar = Len(excel_files)

C12_ProgressStep ==
    /\ pbar' \in {pbar, pbar + 1}
    /\ \A u \in Units : sheet_pbar'[u] \in {sheet_pbar[u], sheet_pbar[u] + 1}
    /\ \A u \in Units :
        (pc[u] = "returned" /\ pc'[u] = "collected" /\ Len(excel_files) > 1) =>
            pbar' = pbar + 1
    /\ \A u \in Units : \A s \in DOMAIN futures[u] :
        (futures[u][s].state = "done" /\ futures'[u][s].state = "collected") =>
            sheet_pbar'[u] = sheet_pbar[u] + 1

C12_ProgressAccounting == []C12_ProgressCounts /\ [][C12_ProgressStep]_vars

\* a batch of several files has returned with a failed unit among them, and
\* one of its files had a sheet task that failed
C12_Witness ==
    /\ upc = "returned"
    /\ Len(excel_files) > 1
    /\ pbar = Len(excel_files)
    /\ file_log # {}
    /\ \E u \in Units :
        /\ sheet_pbar[u] = 2
        /\ \E s \in DOMAIN futures[u] :
            futures[u][s].outcome \in {"XMLSyntaxError", "Exception"}

(***************************************************************************)
(* C13. Once the sheet phase of a file is over, the run has given one      *)
(* result per sheet part of the package, and a removal is reported for a   *)
(* sheet exactly when the sheet held a sheetProtection element before the  *)
(* run, so that the number of removals reported equals the number of       *)
(* protected sheets.                                                       *)
(***************************************************************************)
C13_RemovalReportedPerSheet ==
    \A u \in Units :
        SheetsOver(u) =>
            /\ CollectedSheets(u) = SheetParts(zip_ref[u])
            /\ \A s \in SheetParts(zip_ref[u]) :
                ReportedRemoved(u, s) <=> HasProtection(zip_ref[u][s])
            /\ Cardinality({s \in SheetParts(zip_ref[u]) : ReportedRemoved(u, s)})
                    = Cardinality({s \in SheetParts(zip_ref[u]) : HasProtection(zip_ref[u][s])})

(***************************************************************************)
(* C14. Workspace exclusivity.  The workspaces that exist at one time have *)
(* different names, one per running call of remove_sheet_protection; the   *)
(* sheet tasks of a file are one per sheet file of its own workspace; and  *)
(* a step changes, makes or deletes the workspace of one unit only, the    *)
(* unit whose call or sheet task takes the step.                           *)
(***************************************************************************)
C14_OwnWorkspace ==
    /\ \A u, v \in Units :
        (u # v /\ tmp_dir[u].exists /\ tmp_dir[v].exists) =>
            tmp_dir[u].name # tmp_dir[v].name
    /\ \A u \in Units :
        /\ u \in Running <=> tmp_dir[u].exists
        /\ pc[u] = "sheets" =>
            /\ DOMAIN futures[u] = SheetFiles(tmp_dir[u].tree)
            /\ DOMAIN tmp_dir[u].tree.files = FileEntries(zip_ref[u])

\* unit u, or one of its sheet tasks, takes the step
StepOf(u) == pc'[u] # pc[u] \/ futures'[u] # futures[u]

C14_WorkspaceStep ==
    \A u \in Units :
        tmp_dir'[u] # tmp_dir[u] =>
            /\ StepOf(u)
            /\ \A v \in Units \ {u} : tmp_dir'[v] = tmp_dir[v] /\ ~StepOf(v)
            /\ \A s \in DOMAIN futures[u] :
                (tmp_dir[u].exists /\ tmp_dir'[u].exists /\ pc[u] = "sheets"
                    /\ tmp_dir'[u].tree.files[s] # tmp_dir[u].tree.files[s]) =>
                        /\ futures[u][s].state = "running"
                        /\ futures'[u][s].state = "done"
                        /\ \A t \in DOMAIN tmp_dir[u].tree.files \ {s} :
                            tmp_dir'[u].tree.files[t] = tmp_dir[u].tree.files[t]

C14_WorkspaceExclusive == []C14_OwnWorkspace /\ [][C14_WorkspaceStep]_vars

\* two calls run at once, each in its workspace, a sheet task running in each
C14_Witness ==
    \E u, v \in Units :
        /\ u # v
        /\ tmp_dir[u].exists /\ tmp_dir[v].exists
        /\ tmp_dir[u].name # tmp_dir[v].name
        /\ RunningSheets(u) # {} /\ RunningSheets(v) # {}

(***************************************************************************)
(* C15. Order of the pipeline of one file.  A sheet task exists only after *)
(* the archive has been extracted whole into the workspace; packing starts *)
(* only when every sheet task of the file has finished and been collected, *)
(* none in flight; the workspace is deleted only after packing has ended   *)
(* or the pipeline has failed, and never while a sheet task or the packer  *)
(* of the file is at work in it.                                           *)
(***************************************************************************)
\* every sheet task of u has finished and been collected
AllSheetsCollected(u) == \A s \in DOMAIN futures[u] : futures[u][s].state = "collected"

C15_PhasesInOrder ==
    \A u \in Units :
        /\ futures[u] # NoFutures => zip_ref[u] # NoEntries
        /\ pc[u] = "sheets" =>
            /\ tmp_dir[u].exists
            /\ DOMAIN tmp_dir[u].tree.files = FileEntries(zip_ref[u])
        /\ pc[u] # "sheets" =>
            \/ futures[u] = NoFutures
            \/ AllSheetsCollected(u)
        /\ pc[u] \in {"packing", "packed"} => (AllSheetsCollected(u) /\ tmp_dir[u].exists)
        /\ ~tmp_dir[u].exists => (RunningSheets(u) = {} /\ pc[u] # "packing")

C15_PhaseStep ==
    \A u \in Units :
        /\ (pc[u] # "packing" /\ pc'[u] = "packing") =>
                (pc[u] = "sheets" /\ AllSheetsCollected(u))
        /\ (tmp_dir[u].exists /\ ~tmp_dir'[u].exists) =>
                /\ pc[u] \in {"packed", "failed"}
                /\ RunningSheets(u) = {}
                /\ futures[u] = NoFutures \/ AllSheetsCollected(u)
        /\ \A s \in DOMAIN futures[u] :
            (futures[u][s].state = "pending" /\ futures'[u][s].state # "pending") =>
                DOMAIN tmp_dir[u].tree.files = FileEntries(zip_ref[u])

C15_PipelineOrdered == []C15_PhasesInOrder /\ [][C15_PhaseStep]_vars

\* the packer of a file is writing after the two sheet tasks of the file
\* were collected, one of them failed
C15_Witness ==
    \E u \in Units :
        /\ pc[u] = "packing"
        /\ fs[OutputFile(excel_files[u])] = Writing
        /\ Cardinality(DOMAIN futures[u]) = 2
        /\ AllSheetsCollected(u)
        /\ \E s \in DOMAIN futures[u] : futures[u][s].outcome = "XMLSyntaxError"

(***************************************************************************)
(* C16. All-or-nothing output.  When the run is over, a path that is no    *)
(* input of the run and whose file is not what it was before the run is    *)
(* the output path of a unit whose pipeline succeeded and returned that    *)
(* path, and holds a complete package: a failed pipeline leaves no new or  *)
(* partly written output, and an earlier file at the output path is        *)
(* replaced by a complete package only.                                    *)
(***************************************************************************)
\* the call has returned: unlock_excel_sheets its list, or the one direct
\* call of remove_sheet_protection its result
RunOver ==
    \/ upc = "returned"
    \/ upc = "direct" /\ \A u \in Units : Finished(u)

\* the file at path p is a whole package written from the archive unit u read
CompletePackage(p, u) ==
    /\ fs[p].zip = "zip"
    /\ DOMAIN fs[p].ents = FileEntries(zip_ref[u])

C16_AllOrNothingOutput ==
    RunOver =>
        \A p \in Paths \ Range(excel_files) :
            fs[p] # fs0[p] =>
                \E u \in Units :
                    /\ Succeeded(u)
                    /\ result[u] = p
                    /\ CompletePackage(p, u)

(***************************************************************************)
(* C17. In a batch made by a directory walk, the output path of a unit is  *)
(* not the input path of another unit and not the output path of another   *)
(* unit, so that no call reads its input file while another call has that  *)
(* file open for writing.                                                  *)
(***************************************************************************)
C17_OutputsApartFromInputs ==
    (IsDir(fs0, call.path) /\ upc \in {"pool", "returned"}) =>
        \A u, v \in Units :
            u # v =>
                /\ OutputFile(excel_files[u]) # excel_files[v]
                /\ OutputFile(excel_files[u]) # OutputFile(excel_files[v])
                /\ ~(pc[u] = "packing" /\ pc[v] = "begun"
                        /\ fs[excel_files[v]] = Writing)

(***************************************************************************)
(* C18. Termination without deadlock.  Under fair scheduling of the        *)
(* threads, once the units are submitted every sheet task and every call   *)
(* of remove_sheet_protection completes and unlock_excel_sheets returns,   *)
(* for every worker budget of the model (a file-level pool of one worker   *)
(* included); when it has returned no task is in flight and no workspace   *)
(* remains; and a sheet task that waits while its own pool has a free      *)
(* worker can start, whatever the file-level pool holds.                   *)
(***************************************************************************)
\* no call and no sheet task is queued or running, and no workspace exists
NothingInFlight ==
    \A u \in Units :
        /\ Finished(u)
        /\ ~tmp_dir[u].exists
        /\ futures[u] = NoFutures \/ AllSheetsCollected(u)

\* unit u has a sheet task waiting and its sheet pool a free worker
SheetWaitsWithFreeWorker(u) ==
    /\ pc[u] = "sheets"
    /\ \E s \in DOMAIN futures[u] : futures[u][s].state = "pending"
    /\ Cardinality(RunningSheets(u)) < SheetBudget

C18_NoNestedWait ==
    /\ RunOver => NothingInFlight
    /\ \A u \in Units :
        SheetWaitsWithFreeWorker(u) =>
            ENABLED (\E s \in DOMAIN futures[u] : SheetStart(u, s))

\* the call has ended: with its result, or right away on a path it rejects
RunEnded == RunOver \/ upc \in {"invalid input", "no such path"}

C18_Terminates == []C18_NoNestedWait /\ <>RunEnded

\* a batch of three files has run through a file-level pool of one worker
\* and returned, packages repacked and a failed unit among them
C18_Witness ==
    /\ upc = "returned"
    /\ FileBudget = 1
    /\ Len(excel_files) = 3
    /\ NothingInFlight
    /\ file_log # {}
    /\ \E u \in Units : Succeeded(u) /\ Cardinality(DOMAIN futures[u]) = 2

====
